---- MODULE Spec2Model ----
(***************************************************************************)
(* Incremental OpenSearch migration: the workflow controller               *)
(* (OpenSearchMigrationWorkflowHelper), the progress file it keeps, the    *)
(* retrying Logstash sync it drives and the process entry point.           *)
(*                                                                         *)
(* Time is counted in seconds.  A timestamp string is a record             *)
(*   [sec |-> the reading of its "YYYY-MM-DDTHH:MM:SS" part, in seconds,   *)
(*    sfx |-> the text that follows it: "", "Z", "+00:00", "+08:00"]       *)
(* so that Python's string comparison, isoformat() and the offset          *)
(* normalisation of _time_diff_minutes can be modelled by what they do.    *)
(***************************************************************************)
EXTENDS Integers, Sequences, FiniteSets, TLC

(***************************************************************************)
(* Bounds of the model.                                                    *)
(***************************************************************************)
\* processes started one after another on the same progress file
MaxRuns == 2
\* batch windows one process may issue
MaxBatches == 3

(***************************************************************************)
(* Program constants.                                                      *)
(***************************************************************************)
\* run_migration: "if gap_minutes <= 5"
NearRealtimeGap == 5
\* handle_near_realtime: "if gap_minutes > 6"
CutoverGap == 6
\* get_next_time: "if gap_minutes > 1440" / "elif gap_minutes > 360"
LargeGap == 1440
MediumGap == 360
\* get_next_time: batch_hours
LargeBatchHours == 12
MediumBatchHours == 6
SmallBatchHours == 1
\* run_incremental_sync(..., max_retries=3)
max_retries == 3
\* run_incremental_sync: wait_time = (attempt + 1) * 30
BackoffStep == 30
SecondsPerMinute == 60
SecondsPerHour == 3600

(***************************************************************************)
(* Timestamp strings.                                                      *)
(***************************************************************************)
TS(s, x) == [sec |-> s, sfx |-> x]

\* Python None: a query that found nothing, a local not yet assigned
None == [sec |-> 0, sfx |-> "<None>"]
\* the progress file does not exist
Absent == [sec |-> 0, sfx |-> "<absent>"]
\* the empty string: what a progress file opened for writing and not yet
\* written holds
EmptyStr == [sec |-> 0, sfx |-> "<empty>"]

Suffixes == {"", "Z", "+00:00", "+08:00"}
IsTimestamp(t) == t.sfx \in Suffixes

\* the UTC offset a suffix denotes, in seconds; a string without offset is
\* read as UTC by _time_diff_minutes (it appends "+00:00")
UtcOffset(x) == IF x = "+08:00" THEN 8 * SecondsPerHour ELSE 0

\* the instant a timestamp string denotes, in seconds (UTC)
Instant(t) == t.sec - UtcOffset(t.sfx)

\* Python's int(): truncation toward zero
TruncDiv(a, b) == IF a >= 0 THEN a \div b ELSE -((-a) \div b)

\* _time_diff_minutes(time1, time2); "error" when fromisoformat raises or
\* time2 is None (None has no replace())
TimeDiffFails(time1, time2) == ~IsTimestamp(time1) \/ ~IsTimestamp(time2)
_time_diff_minutes(time1, time2) ==
    TruncDiv(Instant(time2) - Instant(time1), SecondsPerMinute)

\* the order of the suffixes as Python compares strings that agree on their
\* first 19 characters: "" < "+00:00" < "+08:00" < "Z"
SfxRank(x) ==
    CASE x = ""       -> 0
      [] x = "+00:00" -> 1
      [] x = "+08:00" -> 2
      [] OTHER        -> 3

\* a > b on str
StrGreater(a, b) ==
    \/ a.sec > b.sec
    \/ a.sec = b.sec /\ SfxRank(a.sfx) > SfxRank(b.sfx)

\* datetime.fromisoformat(s.replace("Z", "+00:00")) ... .isoformat():
\* a "Z" comes back as "+00:00", every other suffix unchanged
IsoSuffix(x) == IF x = "Z" THEN "+00:00" ELSE x

\* batch_hours with >= in place of > at both thresholds
batch_hours_inclusive(gap) ==
    IF gap >= LargeGap THEN LargeBatchHours
    ELSE IF gap >= MediumGap THEN MediumBatchHours
    ELSE SmallBatchHours

\* get_next_time: the batch length chosen from the gap
batch_hours(gap) ==
    IF gap > LargeGap THEN LargeBatchHours
    ELSE IF gap > MediumGap THEN MediumBatchHours
    ELSE SmallBatchHours

\* get_next_time that replaces an end past source_latest by the start
get_next_time_clamped_to_start(start, gap, latest) ==
    LET next == TS(start.sec + batch_hours(gap) * SecondsPerHour,
                   IsoSuffix(start.sfx))
    IN  IF StrGreater(next, latest) THEN start ELSE next

\* get_next_time(start_time, gap_minutes, source_latest)
get_next_time(start, gap, latest) ==
    LET next == TS(start.sec + batch_hours(gap) * SecondsPerHour,
                   IsoSuffix(start.sfx))
    IN  IF StrGreater(next, latest) THEN latest ELSE next

\* a progress file edited by hand may end in a line break, or hold nothing
\* but one
PaddedSuffixes == {"\n", "Z\n", "+00:00\n", "+08:00\n"}
BlankFile == [sec |-> 0, sfx |-> "<blank>"]
\* str.strip() on the tail of a timestamp text
Strip(x) ==
    CASE x = "\n"       -> ""
      [] x = "Z\n"      -> "Z"
      [] x = "+00:00\n" -> "+00:00"
      [] x = "+08:00\n" -> "+08:00"
      [] OTHER          -> x

\* f.read().strip() that also drops the zone designator
ReadProgressWithoutZone(content) ==
    IF content = BlankFile THEN EmptyStr
    ELSE IF content.sfx \in PaddedSuffixes \cup Suffixes
         THEN [content EXCEPT !.sfx = ""]
         ELSE content

\* f.read().strip() on the progress file: white space around the text is
\* dropped; what save_progress wrote (a timestamp string, or nothing after
\* a torn write) holds none and comes back as stored
ReadProgress(content) ==
    IF content = BlankFile THEN EmptyStr
    ELSE [content EXCEPT !.sfx = Strip(@)]

\* confirm.lower() for the answers the operator may type
Answers == {"y", "Yes", "n", ""}
\* no answer typed yet
NotAsked == "<not asked>"
Lower(a) ==
    CASE a = "Yes" -> "yes"
      [] OTHER     -> a
\* IsAffirmative with everything but n/no taken as a yes
IsAffirmativeUnlessNo(a) == Lower(a) \notin {"n", "no"}

IsAffirmative(a) == Lower(a) \in {"y", "yes"}

(***************************************************************************)
(* What the clusters, the clock and the Logstash subprocess may answer.    *)
(***************************************************************************)
\* a query that raises (cluster red or unreachable, search failure)
Raise == [sec |-> 0, sfx |-> "<raise>"]

\* a query that has not been issued
NotRead == [sec |-> 0, sfx |-> "<not read>"]

\* the suffix the documents' timestamp field is written with
DocSuffixes == {"", "Z", "+08:00"}
\* a document timestamp denoting instant i, written with suffix x
Doc(i, x) == TS(i + UtcOffset(x), x)

\* instants (seconds) the source's latest document may carry
LatestInstants == {330, 360, 1020, 86400, 100000}
\* a snapshot's start_time is reported in UTC with a "Z"
SnapshotResponses == {None, Raise, TS(600, "Z")}
TargetLatestResponses(x) == {None, Raise, Doc(300, x)}
SourceEarliestResponses(x) == {None, Raise, Doc(0, x)}
\* the source only grows: its latest timestamp never moves back
SourceLatestResponses(x, prev) ==
    {None, Raise} \cup {Doc(i, x) : i \in {j \in LatestInstants : j >= prev}}
\* datetime.now().isoformat(): local wall-clock time without offset; the
\* last value is what a host eight hours west of UTC reads at instant 1200
NowValues == {TS(1200, ""), TS(200000, ""), TS(1200 - 28800, "")}
\* one Logstash attempt: exit status 0, another exit status,
\* subprocess.TimeoutExpired, any other exception
Outcomes == {"ok", "nonzero", "timeout", "exception"}

(***************************************************************************)
(* State.                                                                  *)
(***************************************************************************)
VARIABLES
    file,              \* content of the progress file: Absent, EmptyStr or a timestamp
    pc,                \* where the process is
    exitCode,          \* -1 while running, else the process's exit status
    start_time,        \* run_migration's start_time
    gap_minutes,       \* run_migration's gap_minutes
    source_latest,     \* run_migration's source_latest
    nr_gap_minutes,    \* handle_near_realtime's gap_minutes
    nr_source_latest,  \* handle_near_realtime's source_latest
    next_time,         \* run_migration's next_time
    final_latest,      \* handle_near_realtime's final_latest
    caller,            \* who called run_incremental_sync: "batch", "final" or "none"
    attempt,           \* run_incremental_sync's attempt
    waited,            \* seconds run_incremental_sync has slept in this call
    saver,             \* who called save_progress: "confirm", "batch" or "none"
    docSfx,            \* suffix of the documents' timestamps
    srcLatest,         \* instant of the source's latest document at the last read
    run,               \* number of the process, 1 .. MaxRuns
    fileAtStart,       \* history: content of the progress file when this process started
    queries,           \* history: start-time queries this process issued and their results, in order
    confirm,           \* confirm_start_time's confirm: the answer typed, NotAsked before
    gapComputed,       \* history: this process read the source's latest timestamp
    windows,           \* history: sync calls this process issued, in order
    cutover,           \* history: cutover protocol in this iteration: "none", "entered", "notready"
    rechecked,         \* history: in this iteration the gap was read again after the
                       \* write-stop confirmation (it is nr_gap_minutes)
    lastOutcome,       \* history: how the last attempt of the current sync call ended, "none" before
    batch_config,      \* attempts of this process whose /tmp/incremental_<pid>_<attempt>.conf exists
    lastRead,          \* history: what the last query of the source's latest timestamp answered
    snapshot_response, \* history: what the snapshot lookup of get_start_time answered
    synced,            \* history: <<first instant, end instant>> of every sync call that returned True
    firstStart,        \* history: the start time confirmed by the process that found no progress file
    lastSync,          \* history: last sync call: "none", "running", "success", "failed"
    prevFile,          \* history: content of the progress file before the save in progress
    persisted          \* history: the value the last completed save_progress stored; Absent
                       \* before the first save and after the file is removed

locals == <<start_time, gap_minutes, source_latest, nr_gap_minutes,
            nr_source_latest, next_time, final_latest>>
syncVars == <<caller, attempt, waited, lastSync, lastOutcome, batch_config>>
envVars == <<docSfx, srcLatest, run>>
histVars == <<fileAtStart, queries, confirm, gapComputed, windows, cutover, rechecked>>
auditVars == <<lastRead, snapshot_response, synced, firstStart>>
vars == <<file, pc, exitCode, locals, syncVars, saver, prevFile, persisted,
          envVars, histVars, auditVars>>

Window(s, e, k) == [start |-> s, end |-> e, kind |-> k]

Init ==
    /\ file = Absent
    /\ pc = "start"
    /\ exitCode = -1
    /\ start_time = None
    /\ gap_minutes = 0
    /\ source_latest = None
    /\ nr_gap_minutes = 0
    /\ nr_source_latest = None
    /\ next_time = None
    /\ final_latest = None
    /\ caller = "none"
    /\ attempt = 0
    /\ waited = 0
    /\ saver = "none"
    /\ docSfx \in DocSuffixes
    /\ srcLatest = 0
    /\ run = 1
    /\ fileAtStart = Absent
    /\ queries = <<>>
    /\ confirm = NotAsked
    /\ gapComputed = FALSE
    /\ windows = <<>>
    /\ cutover = "none"
    /\ rechecked = FALSE
    /\ lastOutcome = "none"
    /\ batch_config = {}
    /\ lastRead = NotRead
    /\ snapshot_response = NotRead
    /\ synced = {}
    /\ firstStart = None
    /\ lastSync = "none"
    /\ prevFile = Absent
    /\ persisted = Absent

\* sys.exit(code)
Exit(code) ==
    /\ pc' = "exited"
    /\ exitCode' = code

(***************************************************************************)
(* Start-time resolution and confirmation.                                 *)
(***************************************************************************)
\* get_snapshot_start_time without the try/except around the lookup
get_snapshot_start_time_unguarded(resp) == resp

\* OpenSearchMigrationHelper.get_snapshot_start_time: a failed lookup is
\* printed as a warning and reported as None
get_snapshot_start_time(resp) == IF resp = Raise THEN None ELSE resp

\* one query of get_start_time and what it returned
Asked(q, r) == [q |-> q, r |-> r]

\* ResolveStart with the target's latest timestamp asked before the snapshot
ResolveStartTargetFirst(snap, tgt, ear) ==
    LET snapshot_time == get_snapshot_start_time(snap)
        q1 == <<Asked("target_latest", tgt)>>
        q2 == Append(q1, Asked("snapshot", snapshot_time))
        q3 == Append(q2, Asked("source_earliest", ear))
    IN  IF tgt = Raise
        THEN [value |-> None, fatal |-> TRUE, asked |-> q1]
        ELSE IF tgt # None
        THEN [value |-> tgt, fatal |-> FALSE, asked |-> q1]
        ELSE IF snapshot_time # None
        THEN [value |-> snapshot_time, fatal |-> FALSE, asked |-> q2]
        ELSE IF ear = Raise
        THEN [value |-> None, fatal |-> TRUE, asked |-> q3]
        ELSE IF ear # None
        THEN [value |-> ear, fatal |-> FALSE, asked |-> q3]
        ELSE [value |-> None, fatal |-> TRUE, asked |-> q3]

\* ResolveStart without the sys.exit(1) for "nothing found": None goes on
\* to the confirmation
ResolveStartNoExit(snap, tgt, ear) ==
    LET snapshot_time == get_snapshot_start_time(snap)
        q1 == <<Asked("snapshot", snapshot_time)>>
        q2 == Append(q1, Asked("target_latest", tgt))
        q3 == Append(q2, Asked("source_earliest", ear))
    IN  IF snapshot_time # None
        THEN [value |-> snapshot_time, fatal |-> FALSE, asked |-> q1]
        ELSE IF tgt = Raise
        THEN [value |-> None, fatal |-> TRUE, asked |-> q2]
        ELSE IF tgt # None
        THEN [value |-> tgt, fatal |-> FALSE, asked |-> q2]
        ELSE IF ear = Raise
        THEN [value |-> None, fatal |-> TRUE, asked |-> q3]
        ELSE [value |-> ear, fatal |-> FALSE, asked |-> q3]

\* get_start_time without a progress file, given what each cluster query
\* would answer: the value chosen, whether the process exits 1 instead, and
\* the queries issued, in order, each with what it returned
ResolveStart(snap, tgt, ear) ==
    LET snapshot_time == get_snapshot_start_time(snap)
        q1 == <<Asked("snapshot", snapshot_time)>>
        q2 == Append(q1, Asked("target_latest", tgt))
        q3 == Append(q2, Asked("source_earliest", ear))
    IN  IF snapshot_time # None
        THEN [value |-> snapshot_time, fatal |-> FALSE, asked |-> q1]
        ELSE IF tgt = Raise
        THEN [value |-> None, fatal |-> TRUE, asked |-> q2]
        ELSE IF tgt # None
        THEN [value |-> tgt, fatal |-> FALSE, asked |-> q2]
        ELSE IF ear = Raise
        THEN [value |-> None, fatal |-> TRUE, asked |-> q3]
        ELSE IF ear # None
        THEN [value |-> ear, fatal |-> FALSE, asked |-> q3]
        ELSE [value |-> None, fatal |-> TRUE, asked |-> q3]

\* get_start_time, the progress file exists: its content is the start time
ResumeFromProgress ==
    /\ pc = "start"
    /\ file # Absent
    /\ start_time' = ReadProgress(file)
    /\ pc' = "confirm"
    /\ UNCHANGED <<file, exitCode, gap_minutes, source_latest, nr_gap_minutes,
                   nr_source_latest, next_time, final_latest, syncVars, saver,
                   prevFile, persisted, envVars, histVars, auditVars>>

\* get_start_time, no progress file: snapshot, then target latest, then
\* source earliest; sys.exit(1) when a query raises or nothing is found
ResolveFromClusters ==
    /\ pc = "start"
    /\ file = Absent
    /\ \E snap \in SnapshotResponses,
          tgt \in TargetLatestResponses(docSfx),
          ear \in SourceEarliestResponses(docSfx) :
            LET r == ResolveStart(snap, tgt, ear)
            IN  /\ queries' = r.asked
                /\ snapshot_response' = snap
                /\ IF r.fatal
                   THEN Exit(1) /\ UNCHANGED start_time
                   ELSE /\ start_time' = r.value
                        /\ pc' = "confirm"
                        /\ UNCHANGED exitCode
    /\ UNCHANGED <<file, gap_minutes, source_latest, nr_gap_minutes,
                   nr_source_latest, next_time, final_latest, syncVars, saver,
                   prevFile, persisted, envVars, fileAtStart, confirm, gapComputed,
                   windows, cutover, rechecked, lastRead, synced, firstStart>>

\* ConfirmStartTime without the save_progress call after a yes
ConfirmStartTimeNoSave ==
    /\ pc = "confirm"
    /\ \E answer \in Answers :
          /\ confirm' = answer
          /\ IF IsAffirmative(answer)
             THEN /\ pc' = "loop"
                  /\ firstStart' = IF fileAtStart = Absent THEN start_time ELSE firstStart
                  /\ synced' = IF fileAtStart = Absent THEN {} ELSE synced
                  /\ UNCHANGED exitCode
             ELSE /\ Exit(0)
                  /\ UNCHANGED <<synced, firstStart>>
    /\ UNCHANGED <<file, locals, syncVars, saver, prevFile, persisted, envVars,
                   fileAtStart, queries, gapComputed, windows, cutover, rechecked,
                   lastRead, snapshot_response>>

\* confirm_start_time: anything but y/yes is sys.exit(0); y/yes calls
\* save_progress(start_time)
ConfirmStartTime ==
    /\ pc = "confirm"
    /\ \E answer \in Answers :
          /\ confirm' = answer
          /\ IF IsAffirmative(answer)
             THEN /\ saver' = "confirm"
                  /\ pc' = "save_open"
                  /\ firstStart' = IF fileAtStart = Absent THEN start_time ELSE firstStart
                  /\ synced' = IF fileAtStart = Absent THEN {} ELSE synced
                  /\ UNCHANGED exitCode
             ELSE /\ Exit(0)
                  /\ UNCHANGED <<saver, synced, firstStart>>
    /\ UNCHANGED <<file, locals, syncVars, prevFile, persisted, envVars, fileAtStart,
                   queries, gapComputed, windows, cutover, rechecked, lastRead,
                   snapshot_response>>

(***************************************************************************)
(* save_progress: open(progress_file, "w") truncates the file, write()     *)
(* then stores the timestamp.                                              *)
(***************************************************************************)
SaveOpen ==
    /\ pc = "save_open"
    /\ prevFile' = file
    /\ file' = EmptyStr
    /\ pc' = "save_write"
    /\ UNCHANGED <<exitCode, locals, syncVars, saver, persisted, envVars,
                   histVars, auditVars>>

\* after the write, confirm_start_time returns into the loop; the batch
\* branch sleeps 5 seconds and loops
SaveWrite ==
    /\ pc = "save_write"
    /\ file' = start_time
    /\ persisted' = start_time
    /\ pc' = "loop"
    /\ UNCHANGED <<exitCode, locals, syncVars, saver, prevFile, envVars,
                   histVars, auditVars>>

(***************************************************************************)
(* The main loop and the cutover protocol.                                 *)
(***************************************************************************)
\* GapFails with a source that found nothing taken for a timestamp
GapFailsOnRaiseOnly(start, resp) == resp = Raise \/ ~IsTimestamp(start)

\* get_gap_minutes raises: the source query raised, or found nothing (None
\* has no replace()), or start_time does not parse
GapFails(start, resp) == resp = Raise \/ TimeDiffFails(start, resp)

\* IsNearRealtime with < in place of <=
IsNearRealtimeStrict(gap) == gap < NearRealtimeGap

\* run_migration: "if gap_minutes <= 5"
IsNearRealtime(gap) == gap <= NearRealtimeGap

\* WritesNotStopped with the threshold one minute higher
WritesNotStoppedAboveSeven(gap) == gap > CutoverGap + 1

\* WritesNotStopped with >= in place of >
WritesNotStoppedFromSix(gap) == gap >= CutoverGap

\* WritesNotStopped that never lets the final sync start
WritesNotStoppedWhateverGap(gap) == gap > CutoverGap \/ gap <= CutoverGap

\* handle_near_realtime: "if gap_minutes > 6"
WritesNotStopped(gap) == gap > CutoverGap

\* run_migration, top of the loop: get_gap_minutes(start_time), then the
\* branch on the gap; an exception is caught by the loop's handler, which
\* calls sys.exit(1)
ComputeGap ==
    /\ pc = "loop"
    /\ \E resp \in SourceLatestResponses(docSfx, srcLatest) :
          IF GapFails(start_time, resp)
          THEN /\ Exit(1)
               /\ lastRead' = resp
               /\ UNCHANGED <<gap_minutes, source_latest, srcLatest,
                              gapComputed, cutover, rechecked>>
          ELSE /\ gap_minutes' = _time_diff_minutes(start_time, resp)
               /\ source_latest' = resp
               /\ lastRead' = resp
               /\ srcLatest' = Instant(resp)
               /\ gapComputed' = TRUE
               /\ rechecked' = FALSE
               /\ IF IsNearRealtime(gap_minutes')
                  THEN pc' = "near_realtime" /\ cutover' = "entered"
                  ELSE pc' = "next_time" /\ cutover' = "none"
               /\ UNCHANGED exitCode
    /\ UNCHANGED <<file, start_time, nr_gap_minutes, nr_source_latest,
                   next_time, final_latest, syncVars, saver, prevFile, persisted, docSfx,
                   run, fileAtStart, queries, confirm, windows, snapshot_response, synced, firstStart>>

\* handle_near_realtime, entry: the gap is read again for the message
NearRealtimeEnter ==
    /\ pc = "near_realtime"
    /\ \E resp \in SourceLatestResponses(docSfx, srcLatest) :
          IF GapFails(start_time, resp)
          THEN /\ Exit(1)
               /\ lastRead' = resp
               /\ UNCHANGED <<nr_gap_minutes, nr_source_latest, srcLatest>>
          ELSE /\ nr_gap_minutes' = _time_diff_minutes(start_time, resp)
               /\ nr_source_latest' = resp
               /\ lastRead' = resp
               /\ srcLatest' = Instant(resp)
               /\ pc' = "stop_confirm"
               /\ UNCHANGED exitCode
    /\ UNCHANGED <<file, start_time, gap_minutes, source_latest, next_time,
                   final_latest, syncVars, saver, prevFile, persisted, docSfx, run,
                   histVars, snapshot_response, synced, firstStart>>

\* handle_near_realtime: the write-stop prompt is repeated until y/yes
StopConfirm ==
    /\ pc = "stop_confirm"
    /\ \E stop_confirm \in Answers :
          pc' = IF IsAffirmative(stop_confirm) THEN "recheck" ELSE pc
    /\ UNCHANGED <<file, exitCode, locals, syncVars, saver, prevFile, persisted, envVars,
                   histVars, auditVars>>

\* handle_near_realtime after the confirmation: the gap is read again;
\* gap > 6 returns False into the loop, which goes on to get_next_time;
\* otherwise the final sync [start_time, now) is called
NearRealtimeRecheck ==
    /\ pc = "recheck"
    /\ \E resp \in SourceLatestResponses(docSfx, srcLatest) :
          IF GapFails(start_time, resp)
          THEN /\ Exit(1)
               /\ lastRead' = resp
               /\ UNCHANGED <<nr_gap_minutes, nr_source_latest, srcLatest,
                              final_latest, syncVars, windows, cutover, rechecked>>
          ELSE /\ nr_gap_minutes' = _time_diff_minutes(start_time, resp)
               /\ nr_source_latest' = resp
               /\ lastRead' = resp
               /\ srcLatest' = Instant(resp)
               /\ rechecked' = TRUE
               /\ UNCHANGED exitCode
               /\ IF WritesNotStopped(nr_gap_minutes')
                  THEN /\ cutover' = "notready"
                       /\ pc' = "next_time"
                       /\ UNCHANGED <<final_latest, syncVars, windows>>
                  ELSE /\ \E now \in NowValues :
                            /\ final_latest' = now
                            /\ windows' = Append(windows,
                                            Window(start_time, now, "final"))
                       /\ caller' = "final"
                       /\ attempt' = 0
                       /\ waited' = 0
                       /\ lastSync' = "running"
                       /\ lastOutcome' = "none"
                       /\ pc' = "sync"
                       /\ UNCHANGED <<cutover, batch_config>>
    /\ UNCHANGED <<file, start_time, gap_minutes, source_latest, next_time,
                   saver, prevFile, persisted, docSfx, run, fileAtStart, queries,
                   confirm, gapComputed, snapshot_response, synced, firstStart>>

\* IssueBatch with the checkpoint advanced when the window is issued,
\* before run_incremental_sync has reported
IssueBatchSaveFirst ==
    /\ pc = "next_time"
    /\ Len(windows) < MaxBatches
    /\ next_time' = get_next_time(start_time, gap_minutes, source_latest)
    /\ windows' = Append(windows, Window(start_time, next_time', "batch"))
    /\ caller' = "batch"
    /\ attempt' = 0
    /\ waited' = 0
    /\ lastSync' = "running"
    /\ lastOutcome' = "none"
    /\ start_time' = next_time'
    /\ saver' = "batch"
    /\ pc' = "save_open"
    /\ UNCHANGED <<file, exitCode, gap_minutes, source_latest,
                   nr_gap_minutes, nr_source_latest, final_latest,
                   prevFile, persisted, envVars, fileAtStart, queries, confirm,
                   gapComputed, cutover, rechecked, batch_config, auditVars>>

\* run_migration: next_time = get_next_time(start_time, gap_minutes,
\* source_latest) with the loop's own gap_minutes and source_latest, then
\* the call of run_incremental_sync(start_time, next_time, ...)
IssueBatch ==
    /\ pc = "next_time"
    /\ Len(windows) < MaxBatches
    /\ next_time' = get_next_time(start_time, gap_minutes, source_latest)
    /\ windows' = Append(windows, Window(start_time, next_time', "batch"))
    /\ caller' = "batch"
    /\ attempt' = 0
    /\ waited' = 0
    /\ lastSync' = "running"
    /\ lastOutcome' = "none"
    /\ pc' = "sync"
    /\ UNCHANGED <<file, exitCode, start_time, gap_minutes, source_latest,
                   nr_gap_minutes, nr_source_latest, final_latest, saver,
                   prevFile, persisted, envVars, fileAtStart, queries, confirm,
                   gapComputed, cutover, rechecked, batch_config, auditVars>>

(***************************************************************************)
(* LogStashHelper.run_incremental_sync: one attempt per step.              *)
(***************************************************************************)
\* how an attempt may end: with the per-attempt configuration written,
\* Logstash runs; without it (the template could not be read, the
\* configuration could not be written) the attempt ends in the handler of
\* Exception
AttemptOutcomes(written) == IF written THEN Outcomes ELSE {"exception"}

\* the range of instants a sync call selects: timestamp_field gte start,
\* lt end
SyncedRange(w) == <<Instant(w.start), Instant(w.end)>>

\* the ranges synced so far with one more: empty ranges are dropped, ranges
\* that overlap or touch are joined, so that the set holds the disjoint
\* intervals of the instants selected by some successful sync call
AddRange(S, r) ==
    IF r[1] >= r[2] THEN S
    ELSE LET T == {i \in S : i[1] <= r[2] /\ r[1] <= i[2]}
             lo == CHOOSE x \in {r[1]} \cup {i[1] : i \in T} :
                      \A y \in {r[1]} \cup {i[1] : i \in T} : x <= y
             hi == CHOOSE x \in {r[2]} \cup {i[2] : i \in T} :
                      \A y \in {r[2]} \cup {i[2] : i \in T} : x >= y
         IN  (S \ T) \cup {<<lo, hi>>}

\* RemoveConfig that leaves the file where it is
RemoveConfigSkipped(configs, att) == configs

\* the finally clause of an attempt: the attempt's configuration is removed
\* if it exists
RemoveConfig(configs, att) == configs \ {att}

\* one attempt, first half: batch_config = /tmp/incremental_<pid>_<attempt>.conf
\* is written from the template
SyncWriteConfig ==
    /\ pc = "sync"
    /\ attempt \notin batch_config
    /\ batch_config' = batch_config \cup {attempt}
    /\ UNCHANGED <<file, pc, exitCode, locals, caller, attempt, waited, lastSync,
                   lastOutcome, saver, prevFile, persisted, envVars, histVars,
                   auditVars>>

\* the sleep after a failed attempt that is not the last: only the branch
\* of a non-zero exit status sleeps, (attempt + 1) * 30 seconds; the
\* handlers of a timeout and of an exception go straight to the next attempt
BackoffWait(outcome, att) ==
    IF outcome = "nonzero" THEN (att + 1) * BackoffStep ELSE 0

\* MayRetry with one attempt more than max_retries
MayRetryOnceMore(att) == att < max_retries

\* "if attempt < max_retries - 1" of the three failure branches
MayRetry(att) == att < max_retries - 1

\* SyncAttempt with the batch caller advancing start_time to source_latest
\* instead of next_time
SyncAttemptAdvanceToLatest ==
    /\ pc = "sync"
    /\ \E outcome \in AttemptOutcomes(attempt \in batch_config) :
          IF outcome = "ok"
          THEN /\ lastSync' = "success"
               /\ synced' = AddRange(synced, SyncedRange(windows[Len(windows)]))
               /\ lastOutcome' = outcome
               /\ IF caller = "batch"
                  THEN /\ start_time' = source_latest
                       /\ saver' = "batch"
                       /\ pc' = "save_open"
                  ELSE /\ pc' = "unlink"
                       /\ UNCHANGED <<start_time, saver>>
               /\ attempt' = 0
               /\ waited' = 0
               /\ UNCHANGED exitCode
          ELSE IF MayRetry(attempt)
          THEN /\ attempt' = attempt + 1
               /\ waited' = waited + BackoffWait(outcome, attempt)
               /\ lastOutcome' = outcome
               /\ UNCHANGED synced
               /\ UNCHANGED <<pc, exitCode, start_time, saver, lastSync>>
          ELSE /\ lastSync' = "failed"
               /\ lastOutcome' = outcome
               /\ UNCHANGED synced
               /\ Exit(1)
               /\ UNCHANGED <<start_time, saver, attempt, waited>>
    /\ batch_config' = RemoveConfig(batch_config, attempt)
    /\ UNCHANGED <<file, gap_minutes, source_latest, nr_gap_minutes,
                   nr_source_latest, next_time, final_latest, caller,
                   prevFile, persisted, envVars, histVars, lastRead,
                   snapshot_response, firstStart>>

\* SyncAttempt with the progress file removed also after a final sync that
\* exhausted its retries
SyncAttemptFinalFailureUnlinks ==
    /\ pc = "sync"
    /\ \E outcome \in AttemptOutcomes(attempt \in batch_config) :
          IF outcome = "ok"
          THEN /\ lastSync' = "success"
               /\ synced' = AddRange(synced, SyncedRange(windows[Len(windows)]))
               /\ lastOutcome' = outcome
               /\ IF caller = "batch"
                  THEN /\ start_time' = next_time
                       /\ saver' = "batch"
                       /\ pc' = "save_open"
                  ELSE /\ pc' = "unlink"
                       /\ UNCHANGED <<start_time, saver>>
               /\ attempt' = 0
               /\ waited' = 0
               /\ UNCHANGED exitCode
          ELSE IF MayRetry(attempt)
          THEN /\ attempt' = attempt + 1
               /\ waited' = waited + BackoffWait(outcome, attempt)
               /\ lastOutcome' = outcome
               /\ UNCHANGED synced
               /\ UNCHANGED <<pc, exitCode, start_time, saver, lastSync>>
          ELSE /\ lastSync' = "failed"
               /\ lastOutcome' = outcome
               /\ UNCHANGED synced
               /\ IF caller = "final"
                  THEN pc' = "unlink" /\ UNCHANGED exitCode
                  ELSE Exit(1)
               /\ UNCHANGED <<start_time, saver, attempt, waited>>
    /\ batch_config' = RemoveConfig(batch_config, attempt)
    /\ UNCHANGED <<file, gap_minutes, source_latest, nr_gap_minutes,
                   nr_source_latest, next_time, final_latest, caller,
                   prevFile, persisted, envVars, histVars, lastRead,
                   snapshot_response, firstStart>>

\* SyncAttempt with a failed last attempt returning False to a caller that
\* takes it for the end of the migration: exit status 0
SyncAttemptFailureExitsZero ==
    /\ pc = "sync"
    /\ \E outcome \in AttemptOutcomes(attempt \in batch_config) :
          IF outcome = "ok"
          THEN /\ lastSync' = "success"
               /\ synced' = AddRange(synced, SyncedRange(windows[Len(windows)]))
               /\ lastOutcome' = outcome
               /\ IF caller = "batch"
                  THEN /\ start_time' = next_time
                       /\ saver' = "batch"
                       /\ pc' = "save_open"
                  ELSE /\ pc' = "unlink"
                       /\ UNCHANGED <<start_time, saver>>
               /\ attempt' = 0
               /\ waited' = 0
               /\ UNCHANGED exitCode
          ELSE IF MayRetry(attempt)
          THEN /\ attempt' = attempt + 1
               /\ waited' = waited + BackoffWait(outcome, attempt)
               /\ lastOutcome' = outcome
               /\ UNCHANGED synced
               /\ UNCHANGED <<pc, exitCode, start_time, saver, lastSync>>
          ELSE /\ lastSync' = "failed"
               /\ lastOutcome' = outcome
               /\ UNCHANGED synced
               /\ Exit(0)
               /\ UNCHANGED <<start_time, saver, attempt, waited>>
    /\ batch_config' = RemoveConfig(batch_config, attempt)
    /\ UNCHANGED <<file, gap_minutes, source_latest, nr_gap_minutes,
                   nr_source_latest, next_time, final_latest, caller,
                   prevFile, persisted, envVars, histVars, lastRead,
                   snapshot_response, firstStart>>

\* one attempt, second half: Logstash runs (or the attempt ends in an
\* exception before it), the finally clause removes the configuration.
\* Exit status 0 returns True, which ends the call and its locals: the
\* batch caller sets start_time = next_time and calls
\* save_progress, the final caller goes on to unlink the progress file.  A
\* failed last attempt raises; run_migration's handler calls sys.exit(1).
SyncAttempt ==
    /\ pc = "sync"
    /\ \E outcome \in AttemptOutcomes(attempt \in batch_config) :
          IF outcome = "ok"
          THEN /\ lastSync' = "success"
               /\ synced' = AddRange(synced, SyncedRange(windows[Len(windows)]))
               /\ lastOutcome' = outcome
               /\ IF caller = "batch"
                  THEN /\ start_time' = next_time
                       /\ saver' = "batch"
                       /\ pc' = "save_open"
                  ELSE /\ pc' = "unlink"
                       /\ UNCHANGED <<start_time, saver>>
               /\ attempt' = 0
               /\ waited' = 0
               /\ UNCHANGED exitCode
          ELSE IF MayRetry(attempt)
          THEN /\ attempt' = attempt + 1
               /\ waited' = waited + BackoffWait(outcome, attempt)
               /\ lastOutcome' = outcome
               /\ UNCHANGED synced
               /\ UNCHANGED <<pc, exitCode, start_time, saver, lastSync>>
          ELSE /\ lastSync' = "failed"
               /\ lastOutcome' = outcome
               /\ UNCHANGED synced
               /\ Exit(1)
               /\ UNCHANGED <<start_time, saver, attempt, waited>>
    /\ batch_config' = RemoveConfig(batch_config, attempt)
    /\ UNCHANGED <<file, gap_minutes, source_latest, nr_gap_minutes,
                   nr_source_latest, next_time, final_latest, caller,
                   prevFile, persisted, envVars, histVars, lastRead,
                   snapshot_response, firstStart>>

\* handle_near_realtime after a successful final sync:
\* Path(progress_file).unlink(missing_ok=True); sys.exit(0)
FinalComplete ==
    /\ pc = "unlink"
    /\ file' = Absent
    /\ persisted' = Absent
    /\ Exit(0)
    /\ UNCHANGED <<locals, syncVars, saver, prevFile, envVars, histVars, auditVars>>

(***************************************************************************)
(* The process: interrupt and rerun.                                       *)
(***************************************************************************)
\* Interrupt with main's handler leaving with status 0
InterruptExitsZero ==
    /\ pc # "exited"
    /\ Exit(0)
    /\ batch_config' = IF pc = "sync" THEN RemoveConfig(batch_config, attempt)
                       ELSE batch_config
    /\ UNCHANGED <<file, locals, caller, attempt, waited, lastSync, lastOutcome,
                   saver, prevFile, persisted, envVars, histVars, auditVars>>

\* main: a KeyboardInterrupt, wherever it arrives, is not caught by the
\* loop's "except Exception" and ends in main's handler: sys.exit(1); on
\* its way out of run_incremental_sync the finally clause removes the
\* attempt's configuration
Interrupt ==
    /\ pc # "exited"
    /\ Exit(1)
    /\ batch_config' = IF pc = "sync" THEN RemoveConfig(batch_config, attempt)
                       ELSE batch_config
    /\ UNCHANGED <<file, locals, caller, attempt, waited, lastSync, lastOutcome,
                   saver, prevFile, persisted, envVars, histVars, auditVars>>

\* the operator starts the tool again: a new process, the same progress
\* file and the same source
Rerun ==
    /\ pc = "exited"
    /\ run < MaxRuns
    /\ run' = run + 1
    /\ pc' = "start"
    /\ exitCode' = -1
    /\ start_time' = None
    /\ gap_minutes' = 0
    /\ source_latest' = None
    /\ nr_gap_minutes' = 0
    /\ nr_source_latest' = None
    /\ next_time' = None
    /\ final_latest' = None
    /\ caller' = "none"
    /\ attempt' = 0
    /\ waited' = 0
    /\ saver' = "none"
    /\ lastSync' = "none"
    /\ fileAtStart' = file
    /\ queries' = <<>>
    /\ confirm' = NotAsked
    /\ gapComputed' = FALSE
    /\ windows' = <<>>
    /\ cutover' = "none"
    /\ rechecked' = FALSE
    /\ lastOutcome' = "none"
    /\ batch_config' = {}
    /\ lastRead' = NotRead
    /\ snapshot_response' = NotRead
    /\ UNCHANGED <<file, prevFile, persisted, docSfx, srcLatest, synced,
                   firstStart>>

Next ==
    \/ ResumeFromProgress
    \/ ResolveFromClusters
    \/ ConfirmStartTime
    \/ SaveOpen
    \/ SaveWrite
    \/ ComputeGap
    \/ NearRealtimeEnter
    \/ StopConfirm
    \/ NearRealtimeRecheck
    \/ IssueBatch
    \/ SyncWriteConfig
    \/ SyncAttempt
    \/ FinalComplete
    \/ Interrupt
    \/ Rerun

Spec == Init /\ [][Next]_vars

(***************************************************************************)
(* get_next_time on its own: the arguments are drawn from bounded sets,    *)
(* one step applies the function.                                          *)
(***************************************************************************)
\* gaps from -SizingGapsBelowZero to MaxSizingGap minutes
SizingGapsBelowZero == 10
MaxSizingGap == 1450
SizingGaps == (0 - SizingGapsBelowZero) .. MaxSizingGap
\* start times: instant 0 written with every suffix a progress file may hold
SizingStarts == {Doc(0, x) : x \in Suffixes}
\* instants of the source's latest document: half an hour, and more than
\* the longest batch, after the start
SizingLatestInstants == {1800, 50000}

SizingInit ==
    /\ file = Absent
    /\ pc = "sizing"
    /\ exitCode = -1
    /\ start_time \in SizingStarts
    /\ gap_minutes \in SizingGaps
    /\ docSfx \in DocSuffixes
    /\ source_latest \in {Doc(i, docSfx) : i \in SizingLatestInstants}
    /\ nr_gap_minutes = 0
    /\ nr_source_latest = None
    /\ next_time = None
    /\ final_latest = None
    /\ caller = "none"
    /\ attempt = 0
    /\ waited = 0
    /\ saver = "none"
    /\ srcLatest = 0
    /\ run = 1
    /\ fileAtStart = Absent
    /\ queries = <<>>
    /\ confirm = NotAsked
    /\ gapComputed = FALSE
    /\ windows = <<>>
    /\ cutover = "none"
    /\ rechecked = FALSE
    /\ lastOutcome = "none"
    /\ batch_config = {}
    /\ lastRead = NotRead
    /\ snapshot_response = NotRead
    /\ synced = {}
    /\ firstStart = None
    /\ lastSync = "none"
    /\ prevFile = Absent
    /\ persisted = Absent

\* next_time = self.get_next_time(start_time, gap_minutes, source_latest)
ApplyNextTime ==
    /\ pc = "sizing"
    /\ next_time' = get_next_time(start_time, gap_minutes, source_latest)
    /\ pc' = "sized"
    /\ UNCHANGED <<file, exitCode, start_time, gap_minutes, source_latest,
                   nr_gap_minutes, nr_source_latest, final_latest, syncVars,
                   saver, prevFile, persisted, envVars, histVars, auditVars>>

SizingNext == ApplyNextTime

SizingSpec == SizingInit /\ [][SizingNext]_vars

(***************************************************************************)
(* Properties.                                                             *)
(***************************************************************************)
LastWindow == windows[Len(windows)]
Yes == {"y", "Y", "yes", "Yes", "YES", "yEs", "yeS", "YEs", "yES", "YeS"}

\* C1: the progress file receives a new timestamp w only from the
\* start-time confirmation (w is the confirmed start time), or right after
\* a sync call for the window [checkpoint before the save, w) returned
\* success; while a sync call is running or has failed, no step changes the
\* progress file.
C1_CheckpointWrittenOnlyAfterSuccess ==
    [][ /\ (file' # file /\ IsTimestamp(file')) =>
            \/ /\ saver = "confirm"
               /\ confirm \in Yes
               /\ windows = <<>>
               /\ file' = start_time
            \/ /\ saver = "batch"
               /\ lastSync = "success"
               /\ windows # <<>>
               /\ LastWindow.kind = "batch"
               /\ LastWindow.start = prevFile
               /\ LastWindow.end = file'
        /\ (lastSync \in {"running", "failed"} => file' = file)
      ]_vars

\* C1 witness: a batch window [c, w) with w # c succeeded and w is stored
C1_Witness ==
    /\ pc = "loop"
    /\ saver = "batch"
    /\ lastSync = "success"
    /\ file = LastWindow.end
    /\ prevFile = LastWindow.start
    /\ file # prevFile

\* C2: within one run the stored checkpoint never moves to an earlier
\* instant: the value a batch save stores is not earlier than the value the
\* progress file held before that save.
C2_CheckpointNonDecreasing ==
    (saver = "batch" /\ IsTimestamp(file) /\ IsTimestamp(prevFile))
        => Instant(file) >= Instant(prevFile)

\* C3: every window of a run after the first starts where the window before
\* it ended, and when a sync call is issued its window starts at the value
\* the progress file holds, which is the loop's start_time.
C3_WindowsChained ==
    /\ \A i \in 1 .. Len(windows) - 1 :
          /\ windows[i].kind = "batch"
          /\ windows[i + 1].start = windows[i].end
    /\ pc = "sync" =>
          /\ LastWindow.start = file
          /\ LastWindow.start = start_time

\* C3 witness: a second batch window has been issued at the end of a first,
\* non-empty one
C3_Witness ==
    /\ pc = "sync"
    /\ Len(windows) >= 2
    /\ LastWindow.kind = "batch"
    /\ windows[1].start # windows[1].end
    /\ windows[2].start = windows[1].end
    /\ file = windows[1].end

\* C4: the windows of one run have strictly increasing start instants.
C4_WindowStartsIncrease ==
    \A i \in 1 .. Len(windows) : \A j \in 1 .. Len(windows) :
        i < j => Instant(windows[i].start) < Instant(windows[j].start)

\* get_start_time has returned and no window has been issued yet: start_time
\* is still the resolved value
Resolved ==
    /\ windows = <<>>
    /\ pc \in {"confirm", "save_open", "save_write", "loop", "near_realtime",
              "stop_confirm", "recheck", "next_time"}

\* C5: once a checkpoint c has been persisted, a later process, however the
\* one before it stopped, resolves its start time to exactly c without any
\* snapshot, target-latest or source-earliest query, and its first window
\* starts at the value it found in the progress file.
C5_RerunStartsAtPersisted ==
    /\ (pc = "confirm" /\ persisted # Absent) =>
          /\ start_time = persisted
          /\ queries = <<>>
    /\ (fileAtStart # Absent /\ windows # <<>>) =>
          windows[1].start = fileAtStart

\* A process that finds a progress file takes the file's content as its
\* start time, without any query, and starts its first window there.
ResumeReadsProgressFile ==
    fileAtStart # Absent =>
        /\ queries = <<>>
        /\ Resolved => start_time = fileAtStart
        /\ windows # <<>> => windows[1].start = fileAtStart

QueryOrder == <<"snapshot", "target_latest", "source_earliest">>

\* C6: without a progress file the queries are issued in the order snapshot,
\* target latest, source earliest; a query is issued only when every query
\* before it returned nothing; the start time is the value of the last
\* query issued, the first one that returned a value, and it is the start
\* of the first window.
C6_ResolutionOrder ==
    fileAtStart = Absent =>
        /\ Len(queries) <= Len(QueryOrder)
        /\ \A i \in 1 .. Len(queries) : queries[i].q = QueryOrder[i]
        /\ \A i \in 1 .. Len(queries) - 1 : queries[i].r = None
        /\ Resolved =>
              /\ queries # <<>>
              /\ IsTimestamp(queries[Len(queries)].r)
              /\ start_time = queries[Len(queries)].r
        /\ windows # <<>> => windows[1].start = queries[Len(queries)].r

\* C6 witness: the target's latest timestamp was used after the snapshot
\* lookup returned nothing
C6_Witness ==
    /\ fileAtStart = Absent
    /\ pc = "confirm"
    /\ Len(queries) = 2
    /\ start_time = queries[2].r

\* C7: when snapshot, target latest and source earliest all return nothing,
\* the process has exited with status 1, the operator was not asked, no
\* progress file was written and neither the gap nor a sync was started.
C7_NoStartPointIsFatal ==
    (/\ Len(queries) = 3
     /\ \A i \in 1 .. 3 : queries[i].r = None) =>
        /\ pc = "exited"
        /\ exitCode = 1
        /\ confirm = NotAsked
        /\ file = Absent
        /\ ~gapComputed
        /\ windows = <<>>

\* C7 witness: all three queries returned nothing
C7_Witness ==
    /\ Len(queries) = 3
    /\ \A i \in 1 .. 3 : queries[i].r = None
    /\ pc = "exited"

\* C8: after an answer other than y/yes (in any case) to the start-time
\* confirmation the process has exited with status 0, without a gap read
\* or a sync, and the progress file is as it was when the process started.
C8_DeclineCancels ==
    (confirm # NotAsked /\ confirm \notin Yes) =>
        /\ pc = "exited"
        /\ exitCode = 0
        /\ ~gapComputed
        /\ windows = <<>>
        /\ file = fileAtStart

\* C8 witness: a resumed run was declined
C8_Witness ==
    /\ confirm # NotAsked
    /\ confirm \notin Yes
    /\ IsTimestamp(fileAtStart)
    /\ pc = "exited"

\* C9: a gap read or a sync call happens only in a process whose operator
\* confirmed the start time, and when the first loop iteration begins the
\* progress file holds the confirmed start time.
C9_ConfirmBeforeLoop ==
    /\ (gapComputed \/ windows # <<>> \/ pc \in {"loop", "sync"}) =>
          confirm \in Yes
    /\ (pc = "loop" /\ ~gapComputed) =>
          /\ file # Absent
          /\ file = start_time

\* C9 witness: a fresh run stands at its first loop iteration
C9_Witness ==
    /\ pc = "loop"
    /\ ~gapComputed
    /\ fileAtStart = Absent
    /\ IsTimestamp(file)

\* C10: the cutover protocol is entered exactly when the gap read at the
\* top of the iteration is <= 5, and a batch window is issued only when
\* that gap was > 5 or the cutover protocol of the same iteration returned
\* "not ready".
C10_CutoverGate ==
    /\ gapComputed => ((cutover # "none") <=> (gap_minutes <= 5))
    /\ pc \in {"near_realtime", "stop_confirm", "recheck"} =>
          (cutover = "entered" /\ gap_minutes <= 5)
    /\ (pc = "next_time" \/ (pc = "sync" /\ caller = "batch")) =>
          (gap_minutes > 5 \/ cutover = "notready")
    /\ (pc \in {"sync", "unlink"} /\ caller = "final") =>
          (cutover = "entered" /\ gap_minutes <= 5)

\* C10 witness: a batch window issued after "not ready", the gap at the top
\* of the iteration being exactly 5
C10_Witness ==
    /\ pc = "sync"
    /\ caller = "batch"
    /\ cutover = "notready"
    /\ gap_minutes = 5

\* the step in which handle_near_realtime reads the gap again after the
\* write-stop confirmation
RecheckStep == ~rechecked /\ rechecked'

\* C11: when the gap read again after the write-stop confirmation is > 6,
\* that step issues no sync call, leaves the progress file as it is, does
\* not end the process and returns into the loop, which goes on to the
\* batch window of the same iteration; no final sync follows in it.
C11_NotReadyReturns ==
    /\ [][ (RecheckStep /\ nr_gap_minutes' > 6) =>
              /\ windows' = windows
              /\ <<caller', attempt', lastSync'>> = <<caller, attempt, lastSync>>
              /\ file' = file
              /\ file # Absent
              /\ exitCode' = -1
              /\ pc' = "next_time"
         ]_vars
    /\ []((rechecked /\ nr_gap_minutes > 6) =>
              /\ pc # "unlink"
              /\ pc = "sync" => LastWindow.kind = "batch"
              /\ file # Absent)

\* C11 witness: after "not ready" (gap 7) the loop has issued a batch window
C11_Witness ==
    /\ rechecked
    /\ nr_gap_minutes = 7
    /\ pc = "sync"
    /\ caller = "batch"
    /\ IsTimestamp(file)

\* C12: when the gap read again after the write-stop confirmation is <= 6,
\* that step issues one sync call for the window from the checkpoint to the
\* wall-clock time read in that step; a final window is the last window of
\* its run.
C12_FinalSyncOnce ==
    /\ [][ (RecheckStep /\ nr_gap_minutes' <= 6) =>
              /\ final_latest' \in NowValues
              /\ windows' = Append(windows, Window(file, final_latest', "final"))
              /\ file = start_time
              /\ IsTimestamp(file)
              /\ pc' = "sync"
              /\ caller' = "final"
              /\ attempt' = 0
         ]_vars
    /\ [][ (windows # <<>> /\ LastWindow.kind = "final") =>
              (windows' = windows \/ (run' = run + 1 /\ windows' = <<>>))
         ]_vars
    /\ [](\A i \in 1 .. Len(windows) :
              windows[i].kind = "final" => i = Len(windows))

\* C12 witness: the final sync [checkpoint, now) is running, the gap after
\* the confirmation being exactly 6
C12_Witness ==
    /\ pc = "sync"
    /\ caller = "final"
    /\ rechecked
    /\ nr_gap_minutes = 6
    /\ LastWindow = Window(file, final_latest, "final")

\* the final sync of this process returned success
FinalSucceeded == caller = "final" /\ lastSync = "success"
\* the final sync of this process exhausted its retries
FinalFailed == caller = "final" /\ lastSync = "failed"

\* C13: the only step that removes the progress file follows a final sync
\* that was issued after a write-stop confirmation with a gap <= 6 and
\* returned success, and that step ends the process with status 0; once
\* confirm_start_time has returned, or in a process that found a progress
\* file, the file is absent exactly in a process that exited with status 0
\* after a successful final sync.
C13_DeletedOnlyAfterFinalSuccess ==
    /\ [][ (file # Absent /\ file' = Absent) =>
              /\ FinalSucceeded
              /\ LastWindow.kind = "final"
              /\ rechecked
              /\ nr_gap_minutes <= 6
              /\ pc' = "exited"
              /\ exitCode' = 0
         ]_vars
    /\ []((gapComputed \/ pc = "loop" \/ fileAtStart # Absent) =>
              (file = Absent <=>
                  (pc = "exited" /\ exitCode = 0 /\ FinalSucceeded)))

\* C13 witness: the progress file of a process that ran batches is gone
\* after its final sync succeeded
C13_Witness ==
    /\ pc = "exited"
    /\ exitCode = 0
    /\ FinalSucceeded
    /\ Len(windows) >= 2
    /\ file = Absent

\* C14: a final sync that exhausted its retries ends the process with status
\* 1, the progress file still holding the start of the final window, which
\* is the value it held all through the cutover protocol; the next process
\* finds that value in the progress file and takes it as its start time
\* without any query.
C14_FinalFailureKeepsCheckpoint ==
    /\ [](FinalFailed =>
              /\ pc = "exited"
              /\ exitCode = 1
              /\ attempt = 2
              /\ IsTimestamp(file)
              /\ file = LastWindow.start)
    /\ [][ (cutover = "entered" /\ pc # "unlink") => file' = file ]_vars
    /\ [][ (FinalFailed /\ run' = run + 1) =>
              fileAtStart' = LastWindow.start ]_vars
    /\ []((fileAtStart # Absent /\ Resolved) =>
              (start_time = fileAtStart /\ queries = <<>>))

\* C14 witness: the final sync failed three times after the checkpoint had
\* been advanced by a batch window
C14_Witness ==
    /\ FinalFailed
    /\ pc = "exited"
    /\ Len(windows) >= 2
    /\ file = windows[1].end
    /\ file # windows[1].start

\* the gap and the source's latest timestamp of the most recent read of this
\* iteration: handle_near_realtime's after its re-read, else run_migration's
FreshGap == IF rechecked THEN nr_gap_minutes ELSE gap_minutes
FreshLatest == IF rechecked THEN nr_source_latest ELSE source_latest

\* C15: the end of every batch window is get_next_time of the start time
\* with the gap and the source's latest timestamp of the most recent read
\* of the iteration; after "not ready" these are the values read after the
\* write-stop confirmation.
C15_BatchUsesFreshRead ==
    (pc = "sync" /\ caller = "batch") =>
        LastWindow.end = get_next_time(start_time, FreshGap, FreshLatest)

\* C16: for every gap the batch length is 12 hours above 1440 minutes,
\* 6 hours above 360 and up to 1440, 1 hour up to 360, zero and negative
\* gaps included; a window end that was not replaced by the source's latest
\* timestamp lies that many hours after the start.
C16_WindowLengthByGap ==
    pc = "sized" =>
        LET hours == IF gap_minutes > 1440 THEN 12
                     ELSE IF gap_minutes > 360 THEN 6
                     ELSE 1
        IN  /\ batch_hours(gap_minutes) = hours
            /\ next_time # source_latest =>
                  next_time.sec = start_time.sec + hours * 3600

\* C16 witness: a gap of exactly 1440 minutes gave a window of 6 hours
C16_Witness ==
    /\ pc = "sized"
    /\ gap_minutes = 1440
    /\ next_time # source_latest
    /\ next_time.sec = start_time.sec + 6 * 3600

Min(a, b) == IF a <= b THEN a ELSE b

\* C17: the end of a batch window is never later than the source's latest
\* timestamp handed to get_next_time, and when the start is not later than
\* that timestamp the end is the earlier of start + batch length and it.
C17_WindowEndClamped ==
    (pc = "sync" /\ caller = "batch") =>
        /\ Instant(LastWindow.end) <= Instant(source_latest)
        /\ Instant(start_time) <= Instant(source_latest) =>
              Instant(LastWindow.end) =
                  Min(Instant(start_time)
                          + batch_hours(gap_minutes) * SecondsPerHour,
                      Instant(source_latest))

\* the scenario: no progress file, no snapshot, no target data, source
\* earliest 2024-01-01T00:00:00 (second 0), source latest
\* 2024-01-02T00:00:00 (second 86400) at the first read, first window issued
FirstWindowScenario ==
    /\ fileAtStart = Absent
    /\ Len(queries) = 3
    /\ queries[1].r = None
    /\ queries[2].r = None
    /\ queries[3].r = TS(0, "")
    /\ pc = "sync"
    /\ Len(windows) = 1
    /\ cutover = "none"
    /\ source_latest = TS(86400, "")

\* C18 as stated: in the scenario the start is 2024-01-01T00:00:00, the
\* first gap is 1440 minutes, the window is 12 hours long and ends at
\* 2024-01-01T12:00:00.
C18_FirstWindowTwelveHours ==
    FirstWindowScenario =>
        /\ windows[1].start = TS(0, "")
        /\ gap_minutes = 1440
        /\ batch_hours(gap_minutes) = 12
        /\ windows[1].end = TS(12 * 3600, "")

\* C18 amended: in the scenario the start is 2024-01-01T00:00:00, the first
\* gap is 1440 minutes, the window is 6 hours long and ends at
\* 2024-01-01T06:00:00.
C18_FirstWindowSixHours ==
    FirstWindowScenario =>
        /\ windows[1].start = TS(0, "")
        /\ start_time = TS(0, "")
        /\ gap_minutes = 1440
        /\ batch_hours(gap_minutes) = 6
        /\ windows[1].end = TS(6 * 3600, "")

\* C18 witness: the scenario's first window [00:00:00, 06:00:00) is running
C18_Witness ==
    /\ FirstWindowScenario
    /\ caller = "batch"
    /\ LastWindow = Window(TS(0, ""), TS(21600, ""), "batch")

\* C19: a sync call whose attempts all failed has run exactly 3 attempts and
\* slept 30 + 60 seconds in all, none after the third attempt, and its
\* failure has ended the process with status 1.
C19_ExhaustionAfterThreeAttempts ==
    lastSync = "failed" =>
        /\ attempt + 1 = 3
        /\ waited = 30 + 60
        /\ pc = "exited"
        /\ exitCode = 1

\* C20: after k failed attempts of a sync call that were followed by another
\* attempt the call has slept 30 + 60 + ... + 30k seconds, whatever the
\* failures were: non-zero exit status, timeout or exception.
C20_BackoffForEveryFailure ==
    caller # "none" => waited = 15 * attempt * (attempt + 1)

Failures == {"nonzero", "timeout", "exception"}

\* C21: a sync call runs at most 3 attempts; it has returned True exactly
\* when its last attempt ended with exit status 0, it goes on to another
\* attempt only after an attempt that failed, the step in which an attempt
\* ends with exit status 0 ends the call, and a call has failed only after
\* its third attempt failed.
C21_SuccessIffExitZero ==
    /\ [](caller # "none" =>
              /\ attempt < 3
              /\ (lastSync = "success" <=> lastOutcome = "ok")
              /\ (lastSync = "failed" =>
                      (attempt + 1 = 3 /\ lastOutcome \in Failures))
              /\ (pc = "sync" => lastSync = "running"))
    /\ [][ (attempt' = attempt + 1) =>
              (lastOutcome' \in Failures /\ lastSync' = "running") ]_vars
    /\ [][ (pc = "sync" /\ lastOutcome' = "ok" /\ lastOutcome # "ok") =>
              (lastSync' = "success" /\ pc' # "sync" /\ batch_config' = {})
         ]_vars

\* C21 witness: the third attempt of a call is running after a non-zero
\* exit status and a timeout
C21_Witness ==
    /\ pc = "sync"
    /\ attempt = 2
    /\ waited = 30
    /\ lastOutcome = "timeout"
    /\ attempt \in batch_config

\* C22: at most one per-attempt configuration exists, it is the one of the
\* attempt in progress, and none exists outside a running sync call: not
\* when the next attempt begins, not after the call returned or raised.
C22_AttemptConfigRemoved ==
    /\ Cardinality(batch_config) <= 1
    /\ batch_config \subseteq {attempt}
    /\ batch_config # {} => (pc = "sync" /\ lastSync = "running")

\* C22 witness: the second attempt's configuration exists after the first
\* attempt ended in a timeout
C22_Witness ==
    /\ pc = "sync"
    /\ attempt = 1
    /\ lastOutcome = "timeout"
    /\ batch_config = {1}

\* the last batch sync of this process exhausted its retries
BatchFailed == caller = "batch" /\ lastSync = "failed"

\* C23: after a batch sync call has exhausted its retries the process has
\* exited with status 1, the failed window is the last window of the run,
\* and the progress file holds the start of that window.
C23_BatchFailureIsFatal ==
    BatchFailed =>
        /\ pc = "exited"
        /\ exitCode = 1
        /\ LastWindow.kind = "batch"
        /\ IsTimestamp(file)
        /\ file = LastWindow.start
        /\ file = persisted

\* C23 witness: the second batch window of a run failed; the progress file
\* holds the end of the first
C23_Witness ==
    /\ BatchFailed
    /\ Len(windows) = 2
    /\ file = windows[1].end
    /\ file = windows[2].start
    /\ windows[1].start # windows[1].end

\* the last query of the source's latest timestamp raised or found nothing
SourceReadFailed == lastRead \in {Raise, None}

\* C24: after a query of the source's latest timestamp raised or returned
\* nothing, at the top of the loop or inside the cutover protocol, the
\* process has exited with status 1, no sync call was issued since the last
\* save, and the progress file holds the value saved last.
C24_SourceQueryFailureIsFatal ==
    SourceReadFailed =>
        /\ pc = "exited"
        /\ exitCode = 1
        /\ lastSync \in {"none", "success"}
        /\ windows # <<>> => (LastWindow.kind = "batch" /\ LastWindow.end = file)
        /\ file = persisted
        /\ file = start_time
        /\ file # Absent

\* C24 witness: inside the cutover protocol, after a batch window, the
\* source had no answer
C24_Witness ==
    /\ lastRead = None
    /\ cutover = "entered"
    /\ Len(windows) >= 1
    /\ pc = "exited"

\* C25: whenever the process has ended, the progress file holds what the
\* last completed save stored (or has been removed after the final sync):
\* it is never empty.
C25_InterruptKeepsCheckpoint ==
    pc = "exited" =>
        /\ exitCode \in {0, 1}
        /\ file # EmptyStr
        /\ file = persisted \/ file = start_time

\* the operator answered the start-time confirmation with something other
\* than y/yes
Declined == confirm # NotAsked /\ confirm \notin Yes

\* C26: a process that has ended has status 0 or 1; status 0 only after the
\* start time was declined or after the final sync following a re-read gap
\* <= 6 succeeded; after a failed sync call, a failed source or start-time
\* query the status is 1.
C26_ExitStatusZeroOnlyWhenDone ==
    /\ pc = "exited" <=> exitCode \in {0, 1}
    /\ exitCode = 0 =>
          \/ Declined /\ windows = <<>> /\ ~gapComputed
          \/ /\ FinalSucceeded
             /\ rechecked
             /\ nr_gap_minutes <= 6
             /\ file = Absent
    /\ lastSync = "failed" => exitCode = 1
    /\ SourceReadFailed => exitCode = 1
    /\ (\E i \in 1 .. Len(queries) : queries[i].r = Raise) => exitCode = 1
    /\ (Len(queries) = 3 /\ queries[3].r = None) => exitCode = 1

\* C26 witness: a second process, started after the first was stopped with
\* status 1, ended with status 0 because the start time was declined
C26_Witness ==
    /\ run = 2
    /\ IsTimestamp(fileAtStart)
    /\ Declined
    /\ pc = "exited"
    /\ exitCode = 0

\* C27: a snapshot lookup that failed counts as "no snapshot": the target's
\* latest timestamp is asked next; a target-latest or source-earliest query
\* that raises is the last query, no later fallback is asked, the process
\* has exited with status 1, the operator was not asked and no progress
\* file exists.
C27_SnapshotFailureDegrades ==
    /\ snapshot_response = Raise =>
          /\ Len(queries) >= 2
          /\ queries[1] = Asked("snapshot", None)
          /\ queries[2].q = "target_latest"
    /\ \A i \in 1 .. Len(queries) :
          queries[i].r = Raise =>
              /\ i = Len(queries)
              /\ queries[i].q \in {"target_latest", "source_earliest"}
              /\ pc = "exited"
              /\ exitCode = 1
              /\ confirm = NotAsked
              /\ start_time = None
              /\ file = Absent
              /\ persisted = Absent \/ run > 1

\* C27 witness: the snapshot lookup failed, the target had no data and the
\* source-earliest query raised
C27_Witness ==
    /\ snapshot_response = Raise
    /\ Len(queries) = 3
    /\ queries[2].r = None
    /\ queries[3].r = Raise
    /\ pc = "exited"

(***************************************************************************)
(* The progress file as a store on its own: save_progress, the read in     *)
(* get_start_time and the unlink after the final sync, applied in any      *)
(* order to any content the file may hold.                                 *)
(***************************************************************************)
\* valid timestamps handed to save_progress
StoreTimestamps == {TS(s, x) : s \in {600, 43800}, x \in Suffixes}
\* the text t followed by a line break
Padded(t) == [t EXCEPT !.sfx = @ \o "\n"]
\* what the progress file may hold before the first operation
StoreFiles ==
    {Absent, EmptyStr, BlankFile} \cup StoreTimestamps
        \cup {Padded(t) : t \in StoreTimestamps}

StoreInit ==
    /\ file \in StoreFiles
    /\ pc = "store"
    /\ exitCode = -1
    /\ start_time = None
    /\ gap_minutes = 0
    /\ source_latest = None
    /\ nr_gap_minutes = 0
    /\ nr_source_latest = None
    /\ next_time = None
    /\ final_latest = None
    /\ caller = "none"
    /\ attempt = 0
    /\ waited = 0
    /\ saver = "none"
    /\ docSfx = "Z"
    /\ srcLatest = 0
    /\ run = 1
    /\ fileAtStart = file
    /\ queries = <<>>
    /\ confirm = NotAsked
    /\ gapComputed = FALSE
    /\ windows = <<>>
    /\ cutover = "none"
    /\ rechecked = FALSE
    /\ lastOutcome = "none"
    /\ batch_config = {}
    /\ lastRead = NotRead
    /\ snapshot_response = NotRead
    /\ synced = {}
    /\ firstStart = None
    /\ lastSync = "none"
    /\ prevFile = Absent
    /\ persisted = Absent

\* self.save_progress(t) is called
StoreCallSave ==
    /\ pc = "store"
    /\ \E t \in StoreTimestamps : start_time' = t
    /\ pc' = "save_open"
    /\ UNCHANGED <<file, exitCode, gap_minutes, source_latest, nr_gap_minutes,
                   nr_source_latest, next_time, final_latest, syncVars, saver,
                   prevFile, persisted, envVars, histVars, auditVars>>

\* get_start_time is called
StoreCallLoad ==
    /\ pc = "store"
    /\ start_time' = None
    /\ pc' = "start"
    /\ UNCHANGED <<file, exitCode, gap_minutes, source_latest, nr_gap_minutes,
                   nr_source_latest, next_time, final_latest, syncVars, saver,
                   prevFile, persisted, envVars, histVars, auditVars>>

\* Path(self.progress_file).exists() is false: nothing is read
StoreLoadMissing ==
    /\ pc = "start"
    /\ file = Absent
    /\ pc' = "no_progress"
    /\ UNCHANGED <<file, exitCode, locals, syncVars, saver, prevFile,
                   persisted, envVars, histVars, auditVars>>

\* the final sync has returned: the unlink is next
StoreCallClear ==
    /\ pc = "store"
    /\ prevFile' = file
    /\ pc' = "unlink"
    /\ UNCHANGED <<file, exitCode, locals, syncVars, saver, persisted,
                   envVars, histVars, auditVars>>

\* the operation is over; the store is used again (after the unlink, by the
\* next process)
StoreReturn ==
    /\ pc \in {"loop", "confirm", "no_progress", "exited"}
    /\ pc' = "store"
    /\ exitCode' = -1
    /\ UNCHANGED <<file, locals, syncVars, saver, prevFile, persisted,
                   envVars, histVars, auditVars>>

StoreNext ==
    \/ StoreCallSave
    \/ SaveOpen
    \/ SaveWrite
    \/ StoreCallLoad
    \/ ResumeFromProgress
    \/ StoreLoadMissing
    \/ StoreCallClear
    \/ FinalComplete
    \/ StoreReturn

StoreSpec == StoreInit /\ [][StoreNext]_vars

\* C28: for every valid timestamp t, after save(t) the progress file holds
\* t and nothing else, whatever it held before; a load that follows a save
\* returns the saved value; after the removal the file is absent and a load
\* finds nothing; the removal ends without error also when no file existed.
C28_CheckpointRoundTrip ==
    /\ pc = "loop" =>
          (file = start_time /\ persisted = start_time /\ IsTimestamp(file))
    /\ (pc = "confirm" /\ file = persisted) => start_time = persisted
    /\ pc = "confirm" => file # Absent
    /\ pc = "no_progress" => (file = Absent /\ start_time = None)
    /\ pc = "exited" => (file = Absent /\ persisted = Absent /\ exitCode = 0)
    /\ pc # "exited" => exitCode = -1

\* C28 witness: a save over different content, then a load that returned
\* the saved value
C28_Witness ==
    /\ pc = "confirm"
    /\ IsTimestamp(prevFile)
    /\ prevFile # file
    /\ file = persisted
    /\ start_time = persisted
    /\ start_time.sfx = "Z"

\* C30: whenever the progress file holds a timestamp later than the first
\* confirmed start time, one range of successfully synced windows (ranges
\* that overlap or touch are kept merged) reaches from the first confirmed
\* start time, or before it, to the checkpoint, or past it: every instant
\* of [first confirmed start, checkpoint) was synced successfully.
C30_CheckpointCovered ==
    (/\ IsTimestamp(file)
     /\ IsTimestamp(firstStart)
     /\ Instant(firstStart) < Instant(file))
        => \E r \in synced :
              /\ r[1] <= Instant(firstStart)
              /\ Instant(file) <= r[2]

\* C30 witness: a second process resumed from the checkpoint of the first
\* and advanced it with a window that does not start at the first confirmed
\* start time
C30_Witness ==
    /\ run = 2
    /\ IsTimestamp(file)
    /\ IsTimestamp(firstStart)
    /\ windows # <<>>
    /\ windows[1].start # firstStart
    /\ LastWindow.end = file
    /\ lastSync = "success"
    /\ Instant(firstStart) < Instant(windows[1].start)
    /\ Instant(windows[1].start) < Instant(file)

(***************************************************************************)
(* One process under the assumptions of the liveness statement: no query   *)
(* of a cluster ends the process, no sync call exhausts its retries, the   *)
(* operator accepts the start time and is not interrupted. The source's    *)
(* latest timestamp only grows within LatestInstants, so it stops moving.  *)
(* The process may find a progress file left by an earlier one.            *)
(***************************************************************************)
LiveFiles == {Absent} \cup {Doc(600, x) : x \in Suffixes}

LiveInit ==
    /\ file \in LiveFiles
    /\ pc = "start"
    /\ exitCode = -1
    /\ start_time = None
    /\ gap_minutes = 0
    /\ source_latest = None
    /\ nr_gap_minutes = 0
    /\ nr_source_latest = None
    /\ next_time = None
    /\ final_latest = None
    /\ caller = "none"
    /\ attempt = 0
    /\ waited = 0
    /\ saver = "none"
    /\ docSfx \in DocSuffixes
    /\ srcLatest = 0
    /\ run = 1
    /\ fileAtStart = file
    /\ queries = <<>>
    /\ confirm = NotAsked
    /\ gapComputed = FALSE
    /\ windows = <<>>
    /\ cutover = "none"
    /\ rechecked = FALSE
    /\ lastOutcome = "none"
    /\ batch_config = {}
    /\ lastRead = NotRead
    /\ snapshot_response = NotRead
    /\ synced = {}
    /\ firstStart = IF file = Absent THEN None ELSE file
    /\ lastSync = "none"
    /\ prevFile = Absent
    /\ persisted = file

LiveNext ==
    \/ ResumeFromProgress
    \/ ResolveFromClusters /\ exitCode' # 1
    \/ ConfirmStartTime /\ confirm' \in Yes
    \/ SaveOpen
    \/ SaveWrite
    \/ ComputeGap /\ exitCode' # 1
    \/ NearRealtimeEnter /\ exitCode' # 1
    \/ StopConfirm
    \/ NearRealtimeRecheck /\ exitCode' # 1
    \/ IssueBatch
    \/ SyncWriteConfig
    \/ SyncAttempt /\ exitCode' # 1
    \/ FinalComplete

\* the process keeps running and the operator, asked again after every
\* other answer, eventually types y or yes
LiveSpec == LiveInit /\ [][LiveNext]_vars /\ WF_vars(LiveNext)

\* the run ended with status 0 and no progress file
RunCompleted == pc = "exited" /\ exitCode = 0 /\ file = Absent
\* the run needs more batch windows than the model follows
BatchBoundReached == pc = "next_time" /\ Len(windows) >= MaxBatches
\* the source's latest timestamps at most 17 minutes after the earliest
NearInstants == {i \in LatestInstants : i <= 1020}

\* C29: under the assumptions above every run eventually ends with status
\* 0 and no progress file (or needs more than MaxBatches batch windows,
\* which happens only when the source is more than 17 minutes ahead); a
\* batch window issued from a fresh gap ends strictly after its start, and
\* the protocol returns "not ready" only when the source has moved since
\* the gap was read at the top of the loop.
C29_RunTerminates ==
    /\ <>(RunCompleted \/ BatchBoundReached)
    /\ [](BatchBoundReached => srcLatest \notin NearInstants)
    /\ [][ (pc = "next_time" /\ pc' = "sync" /\ cutover # "notready") =>
               Instant(next_time') > Instant(start_time) ]_vars
    /\ [][ (pc = "recheck" /\ cutover' = "notready") =>
               Instant(nr_source_latest') > Instant(source_latest) ]_vars

\* C29 witness: a run that went through a "not ready" return, issued two
\* batch windows and ended with status 0 and no progress file
C29_Witness ==
    /\ RunCompleted
    /\ Len(windows) = 3
    /\ windows[1].kind = "batch"
    /\ windows[2].kind = "batch"
    /\ windows[3].kind = "final"
    /\ rechecked

\* C31: a batch window issued in an iteration whose gap, read at the top of
\* that iteration, is > 5 starts at the checkpoint and ends strictly later;
\* the save that follows its successful sync moves the checkpoint strictly
\* forward.
C31_FreshWindowAdvances ==
    /\ [][ (pc = "next_time" /\ pc' = "sync" /\ cutover = "none") =>
               /\ gap_minutes > 5
               /\ file = start_time
               /\ windows' = Append(windows,
                                    Window(start_time, next_time', "batch"))
               /\ Instant(next_time') > Instant(start_time) ]_vars
    /\ [][ (pc = "save_write" /\ pc' = "loop" /\ saver = "batch"
                /\ cutover = "none") =>
               /\ IsTimestamp(prevFile)
               /\ file' = LastWindow.end
               /\ prevFile = LastWindow.start
               /\ Instant(file') > Instant(prevFile) ]_vars

\* C31 witness: the second window of a run, issued at a gap > 5, has been
\* synced and saved; the checkpoint is its end, later than its start
C31_Witness ==
    /\ pc = "loop"
    /\ Len(windows) = 2
    /\ cutover = "none"
    /\ gap_minutes > 5
    /\ lastSync = "success"
    /\ file = windows[2].end
    /\ Instant(file) > Instant(windows[2].start)
    /\ windows[2].end # source_latest

\* C32: a final sync window starts at the checkpoint, and its end, the
\* wall-clock time, is strictly later than both its start and the source's
\* latest timestamp read after the write-stop confirmation; when the
\* process has ended with status 0, one range of successfully synced
\* windows reaches from the first confirmed start time past that latest
\* timestamp.
C32_FinalWindowCoversSource ==
    /\ (windows # <<>> /\ LastWindow.kind = "final") =>
          /\ LastWindow.start = start_time
          /\ LastWindow.end = final_latest
          /\ Instant(final_latest) > Instant(start_time)
          /\ Instant(final_latest) > Instant(nr_source_latest)
    /\ (exitCode = 0 /\ FinalSucceeded
            /\ Instant(firstStart) <= Instant(nr_source_latest)) =>
          \E r \in synced :
              /\ r[1] <= Instant(firstStart)
              /\ Instant(nr_source_latest) < r[2]

====
